---- MODULE Spec2Model ----
(***************************************************************************)
(* A model of the stack builder of layout_GUI: the bounding-box solver of  *)
(* stacker.py, the run orchestration of builder_gui.py (BuilderGUI) and    *)
(* the XML replay of gen_utils.py.                                         *)
(*                                                                         *)
(* Lengths are integers counting hundredths of a scene unit (the step of   *)
(* the separation spin box), so 0.1 is 10.  Every bounding box of the      *)
(* model has an even extent sum on each axis, so that (min + max) / 2 is   *)
(* the exact real midpoint.                                                *)
(*                                                                         *)
(* The host (maya.cmds) is modelled as a scene of transform nodes: a mesh  *)
(* has a translation t and a local box ext, a group has a translation and  *)
(* its children; the world bounding box of a group is the union of the     *)
(* boxes of its children.                                                  *)
(***************************************************************************)
EXTENDS Integers, Sequences, FiniteSets, TLC

VARIABLES
    sc,              \* the host scene: node name -> node record
    log,             \* calls made by the handler that ran last, in order
    result,          \* what the handler that ran last returned (or raised)
    warning,         \* title of the message box the last handler showed, or ""
    top_text,        \* text of the read-only line edit top_group
    mid_text,        \* text of the read-only line edit mid_group
    bottom_text,     \* text of the read-only line edit bottom_group
    top_objects,     \* BuilderGUI.top_objects: None or the selection stored
    mid_objects,     \* BuilderGUI.mid_objects
    bottom_objects,  \* BuilderGUI.bottom_objects
    num_stack,       \* value of the spin box num_stack
    max_height,      \* value of the spin box max_height
    sep_value,       \* value of the spin box sep_value, in hundredths
    tree_view,       \* the tree view: a sequence of <<group name, member names>>
    pc,              \* where the running handler stands
    stacks,          \* make_stacks: the local stacks
    i,               \* make_stacks: index of the first loop
    j,               \* make_stacks: index of the second loop
    built,           \* make_stacks: the list_of_objects handed to each stack_objs
    before,          \* the scene when the handler that ran last was entered
    last,            \* the last direct call of a stacker function
    prev,            \* the direct call before it
    later            \* clicks taken since make_stacks first made a node

guiVars == <<top_text, mid_text, bottom_text, top_objects, mid_objects,
             bottom_objects, num_stack, max_height, sep_value, tree_view>>
runVars == <<pc, stacks, i, j, built>>
callVars == <<last, prev>>
vars == <<sc, log, result, warning, before, guiVars, runVars, callVars, later>>

----------------------------------------------------------------------------
(* Python values *)

None == "None"
PyTrue == "True"
IndexError == "IndexError"

Digit(d) == <<"0", "1", "2", "3", "4", "5", "6", "7", "8", "9">>[d + 1]

RECURSIVE str(_)
\* str(n) of a natural number
str(n) == IF n < 10 THEN Digit(n) ELSE str(n \div 10) \o Digit(n % 10)

Zero3 == <<0, 0, 0>>

SetMin(S) == CHOOSE m \in S : \A e \in S : m <= e
SetMax(S) == CHOOSE m \in S : \A e \in S : m >= e

----------------------------------------------------------------------------
(* The host scene *)

World == "|"

Mesh(t, ext, src) ==
    [kind |-> "mesh", t |-> t, ext |-> ext, parent |-> World, src |-> src]

Group ==
    [kind |-> "group", t |-> Zero3, ext |-> <<0, 0, 0, 0, 0, 0>>,
     parent |-> World, src |-> ""]

Entry(op, node, mode, v) == [op |-> op, node |-> node, mode |-> mode, v |-> v]

Logged(w, e) == [w EXCEPT !.log = Append(@, e)]

Children(s, g) == {n \in DOMAIN s : s[n].parent = g}

RECURSIVE WorldT(_, _)
\* the world translation of a node: its own and that of the groups above it
WorldT(s, n) ==
    IF s[n].parent = World
    THEN s[n].t
    ELSE LET p == WorldT(s, s[n].parent)
         IN  <<s[n].t[1] + p[1], s[n].t[2] + p[2], s[n].t[3] + p[3]>>

RECURSIVE BoundingBox(_, _)
\* cmds.xform(n, query = True, boundingBox = True):
\* [xmin, ymin, zmin, xmax, ymax, zmax] in world space
BoundingBox(s, n) ==
    IF s[n].kind = "mesh"
    THEN LET t == WorldT(s, n)
             e == s[n].ext
         IN  <<e[1] + t[1], e[2] + t[2], e[3] + t[3],
               e[4] + t[1], e[5] + t[2], e[6] + t[3]>>
    ELSE LET bs == {BoundingBox(s, c) : c \in Children(s, n)}
         IN  <<SetMin({b[1] : b \in bs}), SetMin({b[2] : b \in bs}),
               SetMin({b[3] : b \in bs}), SetMax({b[4] : b \in bs}),
               SetMax({b[5] : b \in bs}), SetMax({b[6] : b \in bs})>>

\* cmds.move(x, y, z, n, relative = True)
MoveRelative(w, n, d) ==
    [sc  |-> [w.sc EXCEPT ![n].t = <<@[1] + d[1], @[2] + d[2], @[3] + d[3]>>],
     log |-> Append(w.log, Entry("move", n, "relative", d))]

----------------------------------------------------------------------------
(* stacker.py *)

\* get_center_point with the two branches exchanged
get_center_point_flags_swapped(s, object_name, top_flag, bottom_flag) ==
    LET bound_coord == BoundingBox(s, object_name)
        center_coord == <<(bound_coord[1] + bound_coord[4]) \div 2,
                          (bound_coord[2] + bound_coord[5]) \div 2,
                          (bound_coord[3] + bound_coord[6]) \div 2>>
    IN  IF top_flag = 1 /\ bottom_flag = 0
        THEN [center_coord EXCEPT ![2] = bound_coord[2]]
        ELSE IF top_flag = 0 /\ bottom_flag = 1
        THEN [center_coord EXCEPT ![2] = bound_coord[5]]
        ELSE center_coord

get_center_point(s, object_name, top_flag, bottom_flag) ==
    LET bound_coord == BoundingBox(s, object_name)
        center_coord == <<(bound_coord[1] + bound_coord[4]) \div 2,
                          (bound_coord[2] + bound_coord[5]) \div 2,
                          (bound_coord[3] + bound_coord[6]) \div 2>>
    IN  IF top_flag = 1 /\ bottom_flag = 0
        THEN [center_coord EXCEPT ![2] = bound_coord[5]]
        ELSE IF top_flag = 0 /\ bottom_flag = 1
        THEN [center_coord EXCEPT ![2] = bound_coord[2]]
        ELSE center_coord

\* the query a call of get_center_point makes, as the log shows it
Queried(w, object_name) ==
    Logged(Logged(w, Entry("get_center_point", object_name, "", Zero3)),
           Entry("xform", object_name, "boundingBox", Zero3))

create_stack_y_only(w, object_name, bottom_center, new_point) ==
    MoveRelative(Logged(w, Entry("create_stack", object_name, "", Zero3)),
                 object_name, <<0, new_point[2] - bottom_center[2], 0>>)

create_stack(w, object_name, bottom_center, new_point) ==
    LET dist == <<new_point[1] - bottom_center[1],
                  new_point[2] - bottom_center[2],
                  new_point[3] - bottom_center[3]>>
    IN  MoveRelative(Logged(w, Entry("create_stack", object_name, "", Zero3)),
                     object_name, dist)

RECURSIVE verify_args_from(_, _)
verify_args_from(arg_list, k) ==
    IF k > Len(arg_list) THEN PyTrue
    ELSE IF arg_list[k] = None THEN None
    ELSE verify_args_from(arg_list, k + 1)

\* stacker.verify_args
stacker_verify_args(arg_list) == verify_args_from(arg_list, 1)

RECURSIVE stack_loop_wrong_bottom(_, _, _)
\* stack_loop taking the bottom center of the lower object, not the upper one
stack_loop_wrong_bottom(w, arg_list, k) ==
    IF k > Len(arg_list) - 1 THEN w
    ELSE LET top_center == get_center_point(w.sc, arg_list[k], 1, 0)
             bottom_center == get_center_point(w.sc, arg_list[k], 0, 1)
             w1 == Queried(Queried(w, arg_list[k]), arg_list[k])
         IN  stack_loop_wrong_bottom(
                 create_stack(w1, arg_list[k + 1], bottom_center, top_center),
                 arg_list, k + 1)

RECURSIVE stack_loop(_, _, _)
\* the loop of stack_objs from index k on (k counts from 1)
stack_loop(w, arg_list, k) ==
    IF k > Len(arg_list) - 1 THEN w
    ELSE LET top_center == get_center_point(w.sc, arg_list[k], 1, 0)
             bottom_center == get_center_point(w.sc, arg_list[k + 1], 0, 1)
             w1 == Queried(Queried(w, arg_list[k]), arg_list[k + 1])
         IN  stack_loop(create_stack(w1, arg_list[k + 1], bottom_center,
                                     top_center),
                        arg_list, k + 1)

RECURSIVE stack_loop_checking(_, _, _)
\* a loop that looks for None only when it reaches the element
stack_loop_checking(w, arg_list, k) ==
    IF k > Len(arg_list) - 1 THEN [ret |-> PyTrue, w |-> w]
    ELSE IF arg_list[k] = None \/ arg_list[k + 1] = None
    THEN [ret |-> None, w |-> w]
    ELSE LET top_center == get_center_point(w.sc, arg_list[k], 1, 0)
             bottom_center == get_center_point(w.sc, arg_list[k + 1], 0, 1)
             w1 == Queried(Queried(w, arg_list[k]), arg_list[k + 1])
         IN  stack_loop_checking(
                 create_stack(w1, arg_list[k + 1], bottom_center, top_center),
                 arg_list, k + 1)

\* stack_objs without the verify_args pass before the loop
stack_objs_check_in_loop(w, arg_list) ==
    IF Len(arg_list) = 1 /\ arg_list[1] = None
    THEN [ret |-> None, w |-> Logged(w, Entry("stack_objs", "", "", Zero3))]
    ELSE stack_loop_checking(Logged(w, Entry("stack_objs", "", "", Zero3)),
                             arg_list, 1)

stack_objs(w, arg_list) ==
    LET w0 == Logged(w, Entry("stack_objs", "", "", Zero3))
    IN  IF stacker_verify_args(arg_list) = None
        THEN [ret |-> None, w |-> w0]
        ELSE [ret |-> PyTrue, w |-> stack_loop(w0, arg_list, 1)]

\* offset_objs_in_x without the move that first brings the centers together
offset_objs_in_x_no_align(w, obj_static, obj_move, offset_val) ==
    LET w0 == Logged(w, Entry("offset_objs_in_x", obj_static, obj_move, Zero3))
        w1 == Queried(Queried(w0, obj_static), obj_move)
        static_bounds == BoundingBox(w1.sc, obj_static)
        static_center_new == get_center_point(w1.sc, obj_static, 0, 0)
        static_dist == static_bounds[4] - static_center_new[1]
        move_bounds == BoundingBox(w1.sc, obj_move)
        move_center_new == get_center_point(w1.sc, obj_move, 0, 0)
        move_dist == move_center_new[1] - move_bounds[1]
        offset_to == offset_val + static_dist + move_dist
    IN  MoveRelative(w1, obj_move, <<offset_to, 0, 0>>)

offset_objs_in_x(w, obj_static, obj_move, offset_val) ==
    LET w0 == Logged(w, Entry("offset_objs_in_x", obj_static, obj_move, Zero3))
        static_center_prev == get_center_point(w0.sc, obj_static, 0, 0)
        move_center_prev == get_center_point(w0.sc, obj_move, 0, 0)
        w1 == MoveRelative(Queried(Queried(w0, obj_static), obj_move), obj_move,
                           <<static_center_prev[1] - move_center_prev[1], 0, 0>>)
        static_bounds == BoundingBox(w1.sc, obj_static)
        static_center_new == get_center_point(w1.sc, obj_static, 0, 0)
        static_dist == static_bounds[4] - static_center_new[1]
        move_bounds == BoundingBox(w1.sc, obj_move)
        move_center_new == get_center_point(w1.sc, obj_move, 0, 0)
        move_dist == move_center_new[1] - move_bounds[1]
        w2 == Queried(Logged(Queried(Logged(w1,
                  Entry("xform", obj_static, "boundingBox", Zero3)), obj_static),
                  Entry("xform", obj_move, "boundingBox", Zero3)), obj_move)
        offset_to == offset_val + static_dist + move_dist
    IN  MoveRelative(w2, obj_move, <<offset_to, 0, 0>>)

----------------------------------------------------------------------------
(* The host calls of builder_gui.py *)

\* the stems of the names make_stacks asks for: each name is a stem and a
\* number
NameStems ==
    {"second_top", "second_bottom", "stack00"}
        \cup {"second_mid" \o Digit(d) \o "_" : d \in 0..9}

\* the name the host gives a new node asked to be called name: name itself
\* when no node has it, else name with its trailing number raised to the
\* first one that makes a name no node has
HostName(s, name) ==
    IF name \notin DOMAIN s THEN name
    ELSE LET most == Cardinality(DOMAIN s) + 1
             parts == CHOOSE pr \in NameStems \X (1..most) :
                          pr[1] \o str(pr[2]) = name
             free == {m \in (parts[2] + 1)..(parts[2] + most) :
                         (parts[1] \o str(m)) \notin DOMAIN s}
         IN  parts[1] \o str(SetMin(free))

\* cmds.duplicate(obj, n = name): a copy of obj beside obj, under the name
\* the host gives it; the call returns HostName(w.sc, name)
Duplicate(w, obj, name) ==
    [sc  |-> (HostName(w.sc, name) :> [w.sc[obj] EXCEPT !.src = obj]) @@ w.sc,
     log |-> Append(w.log, Entry("duplicate", obj, name, Zero3))]

\* cmds.group(a, b, n = name): a new group in the world, under the name the
\* host gives it, holding a and b, which keep their world places; a node
\* that has the name already stays as it is
MakeGroup(w, a, b, name) ==
    [sc  |-> (HostName(w.sc, name) :> Group) @@
             [n \in DOMAIN w.sc |->
                 IF n \in {a, b}
                 THEN [w.sc[n] EXCEPT !.t = WorldT(w.sc, n),
                                      !.parent = HostName(w.sc, name)]
                 ELSE w.sc[n]],
     log |-> Append(w.log, Entry("group", name, a \o " " \o b, Zero3))]

\* cmds.parent(child, grp): child moves under grp and keeps its world place
Parent(w, child, grp) ==
    LET c == WorldT(w.sc, child)
        g == WorldT(w.sc, grp)
    IN  [sc  |-> [w.sc EXCEPT ![child].t = <<c[1] - g[1], c[2] - g[2], c[3] - g[3]>>,
                              ![child].parent = grp],
         log |-> Append(w.log, Entry("parent", child, grp, Zero3))]

\* cmds.move(0, 0, 0, grp.scalePivot, grp.rotatePivot, absolute = True):
\* the pivots move, the node and its bounding box stay
MovePivots(w, grp) ==
    Logged(w, Entry("move", grp \o ".scalePivot " \o grp \o ".rotatePivot",
                    "absolute", Zero3))

----------------------------------------------------------------------------
(* Bounds *)

MaxLen == 3        \* longest sequence handed to stack_objs directly

----------------------------------------------------------------------------
(* The dialog after __init__ and init_gui *)

NoCall == [op |-> "", args |-> <<>>, gap |-> 0, ret |-> ""]

InitGui ==
    /\ top_text = "" /\ mid_text = "" /\ bottom_text = ""
    /\ top_objects = None /\ mid_objects = None /\ bottom_objects = None
    /\ num_stack = 3 /\ max_height = 3 /\ sep_value = 10
    /\ tree_view = <<>>

InitRun ==
    /\ pc = "idle" /\ stacks = 0 /\ i = 0 /\ j = 0 /\ built = <<>>
    /\ log = <<>> /\ result = "" /\ warning = ""
    /\ last = NoCall /\ prev = NoCall
    /\ later = 0

----------------------------------------------------------------------------
(* Direct calls of the stacker functions on a scene of three meshes *)

Objs == {"A", "B", "C"}

\* local boxes: A and B are the boxes of the example ([0,0,0,2,2,2] and
\* [0,0,0,2,1,2]); C is off-centre on every axis
ExtOf(n) ==
    CASE n = "A" -> <<0, 0, 0, 200, 200, 200>>
      [] n = "B" -> <<0, 0, 0, 200, 100, 200>>
      [] OTHER   -> <<-150, -20, 40, 90, 40, 100>>

Places(n) ==
    CASE n = "A" -> {Zero3}
      [] n = "B" -> {Zero3, <<300, -40, 25>>}
      [] OTHER   -> {Zero3, <<-500, 700, 10>>}

ArgLists ==
    UNION {[1..n -> Objs \cup {None}] : n \in 0..MaxLen}

Gaps == {0, 10, 35}

InitStacker ==
    /\ InitGui /\ InitRun
    /\ \E place \in [Objs -> UNION {Places(n) : n \in Objs}] :
          /\ \A n \in Objs : place[n] \in Places(n)
          /\ sc = [n \in Objs |-> Mesh(place[n], ExtOf(n), "")]
    /\ before = sc

\* at most two calls in a row are followed
MayCall == prev.op = ""

CallStackObjs ==
    /\ MayCall
    /\ \E arg_list \in ArgLists :
          LET r == stack_objs([sc |-> sc, log |-> <<>>], arg_list)
          IN  /\ sc' = r.w.sc
              /\ log' = r.w.log
              /\ result' = r.ret
              /\ last' = [op |-> "stack_objs", args |-> arg_list, gap |-> 0,
                          ret |-> r.ret]
    /\ before' = sc
    /\ prev' = last
    /\ UNCHANGED <<warning, guiVars, runVars, later>>

CallOffsetObjsInX ==
    /\ MayCall
    /\ \E obj_static \in Objs, obj_move \in Objs, offset_val \in Gaps :
          LET w == offset_objs_in_x([sc |-> sc, log |-> <<>>], obj_static,
                                    obj_move, offset_val)
          IN  /\ sc' = w.sc
              /\ log' = w.log
              /\ result' = None
              /\ last' = [op |-> "offset_objs_in_x",
                          args |-> <<obj_static, obj_move>>,
                          gap |-> offset_val, ret |-> None]
    /\ before' = sc
    /\ prev' = last
    /\ UNCHANGED <<warning, guiVars, runVars, later>>

\* the values a caller passes for top_flag and bottom_flag
Flags == {0, 1}

CallGetCenterPoint ==
    /\ MayCall
    /\ \E object_name \in Objs, top_flag \in Flags, bottom_flag \in Flags :
          LET w == Queried([sc |-> sc, log |-> <<>>], object_name)
          IN  /\ sc' = w.sc
              /\ log' = w.log
              /\ result' = get_center_point(sc, object_name, top_flag,
                                            bottom_flag)
              /\ last' = [op |-> "get_center_point",
                          args |-> <<object_name>>, gap |-> 0, ret |-> "list",
                          top_flag |-> top_flag, bottom_flag |-> bottom_flag]
    /\ before' = sc
    /\ prev' = last
    /\ UNCHANGED <<warning, guiVars, runVars, later>>

NextStacker == CallStackObjs \/ CallOffsetObjsInX \/ CallGetCenterPoint

SpecStacker == InitStacker /\ [][NextStacker]_vars

----------------------------------------------------------------------------
(* Properties of the direct calls *)

TopCenter(s, n) == get_center_point(s, n, 1, 0)
BottomCenter(s, n) == get_center_point(s, n, 0, 1)

Distinct(seq) ==
    \A a, b \in 1..Len(seq) : a # b => seq[a] # seq[b]

HasNone(seq) == \E k \in 1..Len(seq) : seq[k] = None

Contiguous(s, seq) ==
    \A k \in 1..(Len(seq) - 1) : TopCenter(s, seq[k]) = BottomCenter(s, seq[k + 1])

SameBoxes(s1, s2) ==
    \A n \in DOMAIN s1 : BoundingBox(s1, n) = BoundingBox(s2, n)

Moves(l) == {k \in 1..Len(l) : l[k].op = "move"}

StackedOk == last.op = "stack_objs" /\ last.ret = PyTrue

\* C1 as stated: after stack_objs returns success on any sequence without
\* None, the top center of every element equals the bottom center of the next.
C1_AnySequence == StackedOk => Contiguous(sc, last.args)

\* C1, amended: after stack_objs returns success on a sequence of pairwise
\* distinct objects, the top center of every element i equals the bottom
\* center of element i+1, on the bounding boxes read after the call.
C1_Contiguous ==
    (StackedOk /\ Distinct(last.args)) => Contiguous(sc, last.args)

\* a successful call on three distinct objects that moved both upper ones
C1_Witness ==
    /\ StackedOk /\ Distinct(last.args) /\ Len(last.args) = 3
    /\ Cardinality({log[k].node : k \in Moves(log)}) = 2
    /\ \A k \in Moves(log) : log[k].v[1] # 0 /\ log[k].v[2] # 0 /\ log[k].v[3] # 0

Offset == last.op = "offset_objs_in_x"

GapAfter(s, obj_static, obj_move) ==
    BoundingBox(s, obj_move)[1] - BoundingBox(s, obj_static)[4]

\* C3 as stated: after offset_objs_in_x(S, M, gap), for every S and M,
\* bbox(M).xmin - bbox(S).xmax = gap.
C3_AnyPair == Offset => GapAfter(sc, last.args[1], last.args[2]) = last.gap

\* C3, amended: after offset_objs_in_x(S, M, gap) with M another object than
\* S and gap >= 0, bbox(M).xmin - bbox(S).xmax = gap on the boxes read after
\* the call.
C3_ExactGap ==
    (Offset /\ last.args[1] # last.args[2] /\ last.gap >= 0)
        => GapAfter(sc, last.args[1], last.args[2]) = last.gap

\* a call that moved M from an overlapping place to a positive gap
C3_Witness ==
    /\ Offset /\ last.args[1] # last.args[2] /\ last.gap > 0
    /\ GapAfter(before, last.args[1], last.args[2]) < 0
    /\ GapAfter(sc, last.args[1], last.args[2]) = last.gap

Restacked ==
    /\ StackedOk
    /\ prev.op = "stack_objs" /\ prev.ret = PyTrue
    /\ prev.args = last.args

\* C4 as stated: a second stack_objs on the same sequence, right after a
\* first successful one, translates every object by (0,0,0).
C4_AnySequence ==
    Restacked => /\ SameBoxes(sc, before)
                 /\ \A k \in Moves(log) : log[k].v = Zero3

\* C4, amended: a second stack_objs on the same sequence of pairwise
\* distinct objects, right after a first successful one, translates every
\* object by (0,0,0): every bounding box is what it was after the first call.
C4_Idempotent ==
    (Restacked /\ Distinct(last.args))
        => /\ SameBoxes(sc, before)
           /\ \A k \in Moves(log) : log[k].v = Zero3

\* a second call on three distinct objects, which issued its two moves
C4_Witness ==
    /\ Restacked /\ Distinct(last.args) /\ Len(last.args) = 3
    /\ Cardinality(Moves(log)) = 2

\* C8: stack_objs on a sequence holding None at any position returns None
\* and translates no object, the elements before the None included.
C8_NoneRejected ==
    (last.op = "stack_objs" /\ HasNone(last.args))
        => /\ last.ret = None
           /\ result = None
           /\ sc = before
           /\ Moves(log) = {}

\* a rejected call whose first two elements are objects that do not yet rest
\* on one another and whose last element is None
C8_Witness ==
    /\ last.op = "stack_objs" /\ Len(last.args) = 3
    /\ last.args[1] # None /\ last.args[2] # None /\ last.args[3] = None
    /\ last.args[1] # last.args[2]
    /\ ~Contiguous(sc, SubSeq(last.args, 1, 2))
    /\ last.ret = None


Centered == last.op = "get_center_point"

\* twice the coordinate returned on one axis, against the sum of the two
\* faces of the box on that axis: the returned coordinate is their mean
Mean(c, lo, hi) == 2 * c = lo + hi

\* C11: for an object with bounding box [x0,y0,z0,x1,y1,z1],
\* get_center_point returns x = (x0+x1)/2 and z = (z0+z1)/2 for every
\* combination of the flags, and y = y1 for (top_flag, bottom_flag) = (1,0),
\* y = y0 for (0,1), y = (y0+y1)/2 for (0,0) and (1,1).
C11_CenterPoint ==
    Centered =>
        LET b == BoundingBox(before, last.args[1])
        IN  /\ sc = before
            /\ Len(result) = 3
            /\ Mean(result[1], b[1], b[4])
            /\ Mean(result[3], b[3], b[6])
            /\ (last.top_flag = 1 /\ last.bottom_flag = 0) => result[2] = b[5]
            /\ (last.top_flag = 0 /\ last.bottom_flag = 1) => result[2] = b[2]
            /\ (last.top_flag = last.bottom_flag) => Mean(result[2], b[2], b[5])

\* the top center of the off-centre object, asked for after an earlier call
\* moved it: no face of its box is at 0 and top, bottom and middle differ
C11_Witness ==
    /\ Centered /\ last.top_flag = 1 /\ last.bottom_flag = 0
    /\ last.args[1] = "C"
    /\ prev.op = "stack_objs" /\ prev.ret = PyTrue
    /\ \E k \in 1..Len(prev.args) : k > 1 /\ prev.args[k] = "C"
    /\ LET b == BoundingBox(sc, "C")
       IN  /\ \A k \in 1..6 : b[k] # 0
           /\ b[2] < b[5]
           /\ result = <<(b[1] + b[4]) \div 2, b[5], (b[3] + b[6]) \div 2>>

----------------------------------------------------------------------------
(* builder_gui.py: BuilderGUI *)

MaxStacks == 3          \* largest stack count a followed run may have
MaxPicks == 2           \* most outcomes of the random picks of one stack
MinValidHeight == 1     \* verify_args: the max height is at least this
MaxValidHeight == 6     \* verify_args: the max height is at most this
MinSeparation == 10     \* verify_args: 0.1, in hundredths

\* "%s objects" % str(count)
amount(count) == str(count) \o " objects"

top_name(idx) == "second_top" \o str(idx + 1)
bottom_name(idx) == "second_bottom" \o str(idx + 1)
grp_name(idx) == "stack00" \o str(idx + 1)
\* grp_name[-1]: the last character of str(idx + 1)
grp_name_last(idx) == Digit((idx + 1) % 10)
mid_name(idx, jj) == "second_mid" \o grp_name_last(idx) \o "_" \o str(jj + 1)

gui_verify_args_no_height ==
    IF top_text = "" THEN [ret |-> None, title |-> "Not enough arguments"]
    ELSE IF mid_text = "" THEN [ret |-> None, title |-> "Not enough arguments"]
    ELSE IF bottom_text = "" THEN [ret |-> None, title |-> "Not enough arguments"]
    ELSE IF num_stack < 1 THEN [ret |-> None, title |-> "Incorrect format"]
    ELSE IF sep_value < MinSeparation
    THEN [ret |-> None, title |-> "Incorrect separation value"]
    ELSE [ret |-> PyTrue, title |-> ""]

\* BuilderGUI.verify_args: the spin boxes always hold acceptable input
gui_verify_args ==
    IF top_text = "" THEN [ret |-> None, title |-> "Not enough arguments"]
    ELSE IF mid_text = "" THEN [ret |-> None, title |-> "Not enough arguments"]
    ELSE IF bottom_text = "" THEN [ret |-> None, title |-> "Not enough arguments"]
    ELSE IF num_stack < 1 THEN [ret |-> None, title |-> "Incorrect format"]
    ELSE IF max_height < MinValidHeight \/ max_height > MaxValidHeight
    THEN [ret |-> None, title |-> "Incorrect max height"]
    ELSE IF sep_value < MinSeparation
    THEN [ret |-> None, title |-> "Incorrect separation value"]
    ELSE [ret |-> PyTrue, title |-> ""]

\* make_stacks, lines 262-272: the two duplicates, under the names the host
\* gave them, and their group
stack_head(w, idx, top_obj, bottom_obj) ==
    LET dup_top == HostName(w.sc, top_name(idx))
        w1 == Duplicate(w, top_obj, top_name(idx))
        dup_bottom == HostName(w1.sc, bottom_name(idx))
        w2 == Duplicate(w1, bottom_obj, bottom_name(idx))
    IN  [w |-> MakeGroup(w2, dup_top, dup_bottom, grp_name(idx)),
         dup_top |-> dup_top, dup_bottom |-> dup_bottom]

RECURSIVE add_mids(_, _, _, _)
\* make_stacks, lines 280-286, from the jj-th pick on (jj counts from 0):
\* r holds the scene and log, list_of_objects and tree_list
add_mids(r, idx, mids, jj) ==
    IF jj >= Len(mids) THEN r
    ELSE LET dup_mid == HostName(r.w.sc, mid_name(idx, jj))
             w1 == Duplicate(r.w, mids[jj + 1], mid_name(idx, jj))
             w2 == Parent(w1, dup_mid, grp_name(idx))
         IN  add_mids([r EXCEPT !.w = w2,
                         !.list_of_objects = Append(@, dup_mid),
                         !.tree_list = Append(@, mid_name(idx, jj))],
                      idx, mids, jj + 1)

\* stack_lists with list_of_objects in the order of tree_list: top first
stack_lists_top_first(h, idx, mids) ==
    LET r == add_mids([w |-> h.w, dup_bottom |-> h.dup_bottom,
                       list_of_objects |-> <<h.dup_top>>,
                       tree_list |-> <<top_name(idx)>>], idx, mids, 0)
    IN  [r EXCEPT !.list_of_objects = Append(@, h.dup_bottom),
                  !.tree_list = Append(@, bottom_name(idx))]

\* make_stacks, lines 277-289, after the head h of the pass: the sequence to
\* stack and the names to show
stack_lists(h, idx, mids) ==
    LET r == add_mids([w |-> h.w, dup_bottom |-> h.dup_bottom,
                       list_of_objects |-> <<h.dup_bottom>>,
                       tree_list |-> <<top_name(idx)>>], idx, mids, 0)
    IN  [r EXCEPT !.list_of_objects = Append(@, h.dup_top),
                  !.tree_list = Append(@, bottom_name(idx))]

\* make_stacks, lines 291-300: the base to the origin, the stack on it
stack_place(w, idx, dup_bottom, list_of_objects) ==
    LET bottom_center == get_center_point(w.sc, dup_bottom, 0, 1)
        origin == Zero3
        w1 == create_stack(Queried(w, dup_bottom), dup_bottom, bottom_center,
                           origin)
    IN  MovePivots(stack_objs(w1, list_of_objects).w, grp_name(idx))

\* one pass of the first loop of make_stacks, with the random picks given
make_stack(w, idx, top_obj, bottom_obj, mids) ==
    LET r == stack_lists(stack_head(w, idx, top_obj, bottom_obj), idx, mids)
    IN  [r EXCEPT !.w = stack_place(r.w, idx, r.dup_bottom, r.list_of_objects)]

offset_pair_swapped(jj) == <<grp_name(jj + 1), grp_name(jj)>>

\* make_stacks, lines 305-306: obj_static and obj_move of the jj-th offset
offset_pair(jj) == <<grp_name(jj), grp_name(jj + 1)>>

----------------------------------------------------------------------------
(* The dialog: its buttons, its spin boxes, and a run of make_stacks *)

\* what the user may have selected in the scene when a Set button is clicked:
\* nothing, or one of two objects
Selections == {{}, {"A"}, {"C"}}

\* what the user may set the spin boxes to
NumStackValues == 0..MaxStacks
MaxHeightValues == {0, 1, 2, 3, MaxValidHeight + 1}
SepValues == {5, MinSeparation}

\* where the objects of the scene stand when the dialog opens
PlaceOf(n) ==
    CASE n = "A" -> Zero3
      [] n = "B" -> <<300, -40, 25>>
      [] OTHER   -> <<-500, 700, 10>>

Action(op, ret) == [op |-> op, args |-> <<>>, gap |-> 0, ret |-> ret]

Init ==
    /\ InitGui /\ InitRun
    /\ sc = [n \in Objs |-> Mesh(PlaceOf(n), ExtOf(n), "")]
    /\ before = sc

\* no handler is running: none has been started, or the last one has
\* returned or raised
Idle == pc \in {"idle", "done", "raised"}

MaxLater == 1      \* clicks followed once make_stacks has made a node

\* the scene holds a node make_stacks made
Built == DOMAIN sc # Objs

\* a click or an edit of the user: those onto a scene that holds nodes of
\* make_stacks are counted, and MaxLater of them are followed
Click ==
    /\ later < MaxLater
    /\ later' = IF Built THEN later + 1 ELSE later

\* an edit is no handler of the dialog: nothing has been returned or shown
Edited ==
    /\ Click
    /\ last' = Action("edit", "")
    /\ prev' = prev
    /\ log' = <<>> /\ result' = "" /\ warning' = "" /\ before' = sc

\* set_selection: clicked is the sender, sel is cmds.ls(selection = True)
SetSelection ==
    /\ Idle /\ Click
    /\ \E clicked \in {"btn_01", "btn_02", "btn_03"}, sel \in Selections :
          LET count == Cardinality(sel)
          IN  /\ top_objects' = IF clicked = "btn_01" THEN sel ELSE top_objects
              /\ top_text' = IF clicked = "btn_01" THEN amount(count) ELSE top_text
              /\ mid_objects' = IF clicked = "btn_02" THEN sel ELSE mid_objects
              /\ mid_text' = IF clicked = "btn_02" THEN amount(count) ELSE mid_text
              /\ bottom_objects' =
                     IF clicked = "btn_03" THEN sel ELSE bottom_objects
              /\ bottom_text' =
                     IF clicked = "btn_03" THEN amount(count) ELSE bottom_text
    /\ last' = Action("set_selection", None)
    /\ prev' = prev
    /\ log' = <<>> /\ result' = None /\ warning' = "" /\ before' = sc
    /\ UNCHANGED <<sc, num_stack, max_height, sep_value, tree_view, runVars>>

\* the user sets the spin box num_stack
EditNumStack ==
    /\ Idle
    /\ \E v \in NumStackValues : num_stack' = v
    /\ Edited
    /\ UNCHANGED <<sc, top_text, mid_text, bottom_text, top_objects, mid_objects,
                   bottom_objects, max_height, sep_value, tree_view, runVars>>

\* the user sets the spin box max_height
EditMaxHeight ==
    /\ Idle
    /\ \E v \in MaxHeightValues : max_height' = v
    /\ Edited
    /\ UNCHANGED <<sc, top_text, mid_text, bottom_text, top_objects, mid_objects,
                   bottom_objects, num_stack, sep_value, tree_view, runVars>>

\* the user sets the spin box sep_value
EditSepValue ==
    /\ Idle
    /\ \E v \in SepValues : sep_value' = v
    /\ Edited
    /\ UNCHANGED <<sc, top_text, mid_text, bottom_text, top_objects, mid_objects,
                   bottom_objects, num_stack, max_height, tree_view, runVars>>

RECURSIVE Power(_, _)
Power(b, e) == IF e = 0 THEN 1 ELSE b * Power(b, e - 1)

RECURSIVE SumPowers(_, _)
\* b + b^2 + ... + b^e
SumPowers(b, e) == IF e < 1 THEN 0 ELSE Power(b, e) + SumPowers(b, e - 1)

\* the number of outcomes of the random picks of one stack
PickCount ==
    IF top_text = "" \/ mid_text = "" \/ bottom_text = "" THEN 0
    ELSE Cardinality(top_objects) * Cardinality(bottom_objects)
             * SumPowers(Cardinality(mid_objects), max_height)

MaxNamed == 11     \* largest stack count of the long runs followed

\* the heights of the long runs
NamedHeights == {1, 2}

\* a long run: up to MaxNamed stacks, every group holding one object, onto a
\* scene without nodes of make_stacks
LongRun ==
    /\ num_stack \in 0..MaxNamed
    /\ max_height \in NamedHeights
    /\ top_text # "" /\ mid_text # "" /\ bottom_text # ""
    /\ top_objects = {"A"} /\ mid_objects = {"A"} /\ bottom_objects = {"A"}
    /\ ~Built

\* the runs followed: the spin boxes hold values of the sets above and the
\* picks of a stack have at most MaxPicks outcomes, or the run is a long run
Followed ==
    \/ /\ num_stack \in NumStackValues
       /\ max_height \in MaxHeightValues
       /\ max_height > MaxValidHeight \/ PickCount <= MaxPicks
    \/ LongRun

\* make_stacks, lines 252-256: verify_args, then the stack count
MakeStacksBegin ==
    /\ Idle /\ Followed /\ Click
    /\ LET status_new == gui_verify_args
       IN  IF status_new.ret = None
           THEN /\ result' = None
                /\ warning' = status_new.title
                /\ last' = Action("make_stacks", None)
                /\ UNCHANGED runVars
           ELSE /\ result' = ""
                /\ warning' = ""
                /\ last' = Action("make_stacks", "")
                /\ pc' = "build"
                /\ stacks' = num_stack
                /\ i' = 0 /\ j' = 0 /\ built' = <<>>
    /\ prev' = prev
    /\ log' = <<>> /\ before' = sc
    /\ UNCHANGED <<sc, guiVars>>

\* random.choice raises IndexError on an empty list: the handler ends there
Raised(w) ==
    /\ sc' = w.sc /\ log' = w.log
    /\ result' = IndexError
    /\ last' = Action("make_stacks", IndexError)
    /\ pc' = "raised"
    /\ UNCHANGED <<warning, before, guiVars, stacks, i, j, built, prev, later>>

\* make_stacks, line 309
Returned ==
    /\ result' = PyTrue
    /\ last' = Action("make_stacks", PyTrue)
    /\ pc' = "done"

Running == pc' = pc /\ UNCHANGED <<result, last>>

\* make_stacks, lines 257-302: one pass of the first loop; after the last
\* pass of a run of one stack the second loop is empty and the handler returns
BuildStack ==
    /\ pc = "build"
    /\ LET w == [sc |-> sc, log |-> log]
       IN  \/ /\ top_objects = {} \/ bottom_objects = {}
              /\ Raised(w)
           \/ /\ mid_objects = {}
              /\ \E top_obj \in top_objects, bottom_obj \in bottom_objects :
                    Raised(stack_head(w, i, top_obj, bottom_obj).w)
           \/ \E top_obj \in top_objects, bottom_obj \in bottom_objects,
                 number_in_middle \in 1..max_height :
                 \E mids \in [1..number_in_middle -> mid_objects] :
                    LET r == make_stack(w, i, top_obj, bottom_obj, mids)
                    IN  /\ sc' = r.w.sc /\ log' = r.w.log
                        /\ built' = Append(built, r.list_of_objects)
                        /\ tree_view' =
                               Append(tree_view, <<grp_name(i), r.tree_list>>)
                        /\ i' = i + 1
                        /\ IF i + 1 < stacks THEN Running
                           ELSE IF 0 < stacks - 1
                           THEN pc' = "offset" /\ UNCHANGED <<result, last>>
                           ELSE Returned
                        /\ UNCHANGED <<warning, before, top_text, mid_text,
                                       bottom_text, top_objects, mid_objects,
                                       bottom_objects, num_stack, max_height,
                                       sep_value, stacks, j, prev, later>>

\* make_stacks, lines 304-309: one pass of the second loop; the handler
\* returns after the last one
OffsetStacks ==
    /\ pc = "offset" /\ j < stacks - 1
    /\ LET pair == offset_pair(j)
           w == offset_objs_in_x([sc |-> sc, log |-> log], pair[1], pair[2],
                                 sep_value)
       IN  sc' = w.sc /\ log' = w.log
    /\ j' = j + 1
    /\ IF j + 1 < stacks - 1 THEN Running ELSE Returned
    /\ UNCHANGED <<warning, before, guiVars, stacks, i, built, prev, later>>

----------------------------------------------------------------------------
(* Properties of a run of make_stacks *)

\* make_stacks is the handler clicked last and it got past verify_args: it is
\* running, or it has returned or raised and nothing was clicked since
Ran == last.op = "make_stacks" /\ result # None
InRun == Ran /\ pc \in {"build", "offset", "done", "raised"}
Done == Ran /\ pc = "done"

Mutations(l) ==
    {k \in 1..Len(l) : l[k].op \in {"duplicate", "group", "parent", "move"}}

Where(l, op) == {k \in 1..Len(l) : l[k].op = op}

\* the group cmds.group made for the k-th stack of the run: the one that
\* holds the base of the stack
StackGroup(k) == sc[built[k][1]].parent

\* C2: when make_stacks returns True after building n >= 2 stacks with
\* separation g, bbox(stack j+1).xmin - bbox(stack j).xmax = g for every
\* adjacent pair, so no two adjacent stacks overlap in x.
C2_StackGaps ==
    (Done /\ result = PyTrue /\ stacks >= 2)
        => \A k \in 1..(stacks - 1) :
              /\ GapAfter(sc, StackGroup(k), StackGroup(k + 1)) = sep_value
              /\ BoundingBox(sc, StackGroup(k + 1))[1]
                     > BoundingBox(sc, StackGroup(k))[4]

IsDuplicateOf(n, group) ==
    /\ n \notin DOMAIN before
    /\ sc[n].src \in group
    /\ \E k \in Where(log, "duplicate") : log[k].node = sc[n].src

StackSequence(l) ==
    /\ Len(l) >= 3 /\ Len(l) <= max_height + 2
    /\ IsDuplicateOf(l[1], bottom_objects)
    /\ \A k \in 2..(Len(l) - 1) : IsDuplicateOf(l[k], mid_objects)
    /\ IsDuplicateOf(l[Len(l)], top_objects)

\* C5: a valid run of make_stacks with stack count n and max height h builds
\* exactly n stacks, and the sequence handed to stack_objs for each is a
\* duplicate from the bottom group, then k duplicates from the middle group
\* with 1 <= k <= h, then a duplicate from the top group; no element is an
\* object the user selected.
C5_StackSequences ==
    InRun => /\ \A k \in 1..Len(built) : StackSequence(built[k])
             /\ Len(built) = Cardinality(Where(log, "stack_objs"))
             /\ Len(built) <= stacks
             /\ Done => (Len(built) = stacks /\ stacks = num_stack)

\* a finished run whose top and bottom groups share no object and whose
\* stacks have one and two middle objects
C5_Witness ==
    /\ Done /\ stacks >= 2
    /\ top_objects \cap bottom_objects = {}
    /\ \E a, b \in 1..Len(built) : Len(built[a]) = 3 /\ Len(built[b]) = 4

\* the k-th call of offset_objs_in_x in the log, k counting from 0
OffsetAt(l, k) ==
    CHOOSE p \in Where(l, "offset_objs_in_x") :
        Cardinality({q \in Where(l, "offset_objs_in_x") : q < p}) = k

Moved(e) ==
    IF e.node \in DOMAIN sc THEN {e.node, sc[e.node].parent} ELSE {}

EmptyGroup(text, objects) == text = "" \/ objects = {}

Ended == last.op = "make_stacks" /\ pc \in {"idle", "done", "raised"}

\* C7: make_stacks invoked while one of the three groups is empty, a group
\* set from an empty selection included, fails, and nothing of the scene has
\* been duplicated, grouped, parented or moved before the failure.
C7_EmptyGroupNoMutation ==
    (Ended /\ (\/ EmptyGroup(top_text, top_objects)
               \/ EmptyGroup(mid_text, mid_objects)
               \/ EmptyGroup(bottom_text, bottom_objects)))
        => /\ result \in {None, IndexError}
           /\ sc = before
           /\ Mutations(log) = {}

ConfigValid ==
    /\ top_text # "" /\ mid_text # "" /\ bottom_text # ""
    /\ num_stack >= 1
    /\ max_height >= 1 /\ max_height <= 6
    /\ sep_value >= 10

\* C9: make_stacks returns None and duplicates, groups, parents and moves
\* nothing whenever a group has never been set, the stack count is < 1, the
\* max height is outside [1,6] or the separation is < 0.1; a stack is only
\* built when all of these checks pass.
C9_InvalidConfigRefused ==
    /\ (last.op = "make_stacks" /\ ~ConfigValid)
           => /\ result = None /\ Idle
              /\ warning # ""
              /\ sc = before
              /\ Mutations(log) = {}
    /\ (InRun \/ (last.op = "make_stacks" /\ Mutations(log) # {}))
           => ConfigValid

\* a run refused for its max height alone, with three groups to pick from
C9_Witness ==
    /\ last.op = "make_stacks" /\ result = None
    /\ warning = "Incorrect max height"
    /\ max_height > 6
    /\ ~EmptyGroup(top_text, top_objects)
    /\ ~EmptyGroup(mid_text, mid_objects)
    /\ ~EmptyGroup(bottom_text, bottom_objects)
    /\ num_stack >= 1 /\ sep_value >= 10


\* the bottom center of the base object of the k-th stack built
BaseOf(k) == BottomCenter(sc, built[k][1])

\* C12: when make_stacks returns True, every stack it built is vertically
\* contiguous (the top center of each member is the bottom center of the
\* member above it) and the bottom center of each stack's base object has
\* y = 0 and z = 0, and x = 0 for the first stack.
C12_StacksStandOnGround ==
    (Done /\ result = PyTrue)
        => /\ Len(built) = stacks
           /\ \A k \in 1..Len(built) :
                 /\ Contiguous(sc, built[k])
                 /\ BaseOf(k)[2] = 0 /\ BaseOf(k)[3] = 0
                 /\ k = 1 => BaseOf(k)[1] = 0

----------------------------------------------------------------------------
(* gen_utils.py and BuilderGUI.apply_xml *)

MaxXmlObjects == 3      \* most object elements of a file

\* An XML file, as read_stack_xml walks it: whether os.path.isfile holds,
\* and the object elements in document order, each with the tag of the stack
\* element that holds it and its component elements <<tag, value>>.
XmlStackTags == {"stack001", "stack002"}
XmlObjectTags == {"A", "B"}
XmlValues == {<<"0", "0", "0">>, <<"1.5", "0", "-2">>}

XmlObject(stack, obj, v) ==
    [stack |-> stack, obj |-> obj,
     comps |-> <<<<"tx", v[1]>>, <<"ty", v[2]>>, <<"tz", v[3]>>>>]

\* an object element without component elements: <stack001><B></B></stack001>
XmlBareObject == [stack |-> "stack001", obj |-> "B", comps |-> <<>>]

XmlObjects ==
    {XmlObject(st, o, v) : st \in XmlStackTags, o \in XmlObjectTags, v \in XmlValues}
        \cup {XmlBareObject}

XmlFiles ==
    {[isfile |-> FALSE, doc |-> <<>>]} \cup
    {[isfile |-> TRUE, doc |-> d] :
        d \in UNION {[1..n -> XmlObjects] : n \in 0..MaxXmlObjects}}

\* the distance the host reads from the text of a value
ToNumber(text) ==
    CASE text = "0" -> 0
      [] text = "1.5" -> 150
      [] text = "-2" -> -200

\* Autovivification.__getitem__: the entry of the key, made empty when absent
Vivified(d, key) == IF key \in DOMAIN d THEN d[key] ELSE <<>>

Assigned(d, key, value) == (key :> value) @@ d

RECURSIVE put_comps(_, _, _)
\* the innermost loop over the components of the object element e, from the
\* k-th on: contents[stack.tag][i.tag][comp.tag] = value. The entries of the
\* stack and of the object come to be with the first assignment, so an
\* element without components leaves contents as it is.
put_comps(contents, e, k) ==
    IF k > Len(e.comps) THEN contents
    ELSE LET vector == Vivified(contents, e.stack)
             point == Vivified(vector, e.obj)
             set == Assigned(point, e.comps[k][1], e.comps[k][2])
         IN  put_comps(Assigned(contents, e.stack, Assigned(vector, e.obj, set)),
                       e, k + 1)

RECURSIVE read_from(_, _, _)
\* the loops over the stack and object elements, from the k-th object on
read_from(contents, doc, k) ==
    IF k > Len(doc) THEN contents
    ELSE read_from(put_comps(contents, doc[k], 1), doc, k + 1)

\* read_stack_xml: None when the path is no file, else the mapping
\* stack tag -> object tag -> component tag -> value
read_stack_xml(file) ==
    IF ~file.isfile THEN [isNone |-> TRUE, contents |-> <<>>]
    ELSE [isNone |-> FALSE, contents |-> read_from(<<>>, file.doc, 1)]

\* cmds.move(x, y, z, n, absolute = True): n goes to <<x, y, z>> in the world
MoveAbsolute(w, n, x, y, z) ==
    LET p == IF w.sc[n].parent = World THEN Zero3
             ELSE WorldT(w.sc, w.sc[n].parent)
    IN  [sc  |-> [w.sc EXCEPT ![n].t = <<ToNumber(x) - p[1], ToNumber(y) - p[2],
                                         ToNumber(z) - p[3]>>],
         log |-> Append(w.log, Entry("move", n, "absolute", <<x, y, z>>))]

\* the pairs <<key, j>> the two loops of apply_xml visit
Visited(dict) ==
    UNION {{<<key, jj>> : jj \in DOMAIN dict[key]} : key \in DOMAIN dict}

\* the orders in which the two loops may visit them: the order of the keys
\* of a dictionary is not fixed, the objects of one key come together
VisitOrders(dict) ==
    LET n == Cardinality(Visited(dict))
    IN  {o \in [1..n -> Visited(dict)] :
            /\ \A a, b \in 1..n : a # b => o[a] # o[b]
            /\ \A a, b, c \in 1..n :
                  (a < b /\ b < c /\ o[a][1] = o[c][1]) => o[b][1] = o[a][1]}

RECURSIVE apply_moves_first_key(_, _, _, _)
\* the loops of apply_xml leaving after the first key
apply_moves_first_key(w, dict, order, k) ==
    IF k > Len(order) \/ order[k][1] # order[1][1] THEN w
    ELSE LET key == order[k][1]
             jj == order[k][2]
         IN  apply_moves_first_key(
                 MoveAbsolute(w, jj, dict[key][jj]["tx"], dict[key][jj]["ty"],
                              dict[key][jj]["tz"]),
                 dict, order, k + 1)

RECURSIVE apply_moves(_, _, _, _)
\* apply_xml, lines 406-413, from the k-th visit on
apply_moves(w, dict, order, k) ==
    IF k > Len(order) THEN w
    ELSE LET key == order[k][1]
             jj == order[k][2]
         IN  apply_moves(
                 MoveAbsolute(w, jj, dict[key][jj]["tx"], dict[key][jj]["ty"],
                              dict[key][jj]["tz"]),
                 dict, order, k + 1)

\* apply_xml with the file the user chose ("" when the dialog is cancelled)
apply_xml(w, filename, file, order) ==
    IF filename = "" THEN [ret |-> None, w |-> w, title |-> ""]
    ELSE LET dict == read_stack_xml(file)
         IN  IF dict.isNone \/ DOMAIN dict.contents = {}
             THEN [ret |-> None, w |-> w, title |-> "Empty file"]
             ELSE [ret |-> PyTrue, title |-> "",
                   w |-> apply_moves(w, dict.contents, order, 1)]

InitXml == InitStacker

\* apply_xml clicked, the file chosen being one of files: after a cancelled
\* or refused replay the user may choose again
ApplyXmlFrom(files) ==
    /\ Idle
    /\ \E filename \in {"", "stacks.xml"}, file \in files :
          \E order \in VisitOrders(read_stack_xml(file).contents) :
             LET r == apply_xml([sc |-> sc, log |-> <<>>], filename, file, order)
             IN  /\ sc' = r.w.sc
                 /\ log' = r.w.log
                 /\ result' = r.ret
                 /\ warning' = r.title
                 /\ last' = [op |-> "apply_xml", gap |-> 0, ret |-> r.ret,
                             args |-> IF filename = "" THEN <<>> ELSE file.doc]
    /\ before' = sc
    /\ UNCHANGED <<guiVars, runVars, prev>>

\* the files chosen at any click: no file, and files of one object element
\* that names a node of the scene
DialogObjectTags == {"A", "second_top1"}

DialogFiles ==
    {[isfile |-> FALSE, doc |-> <<>>]} \cup
    {[isfile |-> TRUE, doc |-> <<XmlObject("stack001", o, <<"1.5", "0", "-2">>)>>] :
        o \in DialogObjectTags \cap DOMAIN sc}

\* Load XML clicked at any time
LoadXml == ApplyXmlFrom(DialogFiles) /\ Click

\* Load XML as the first click, with any file of XmlFiles
ApplyXml == last.op = "" /\ ApplyXmlFrom(XmlFiles) /\ UNCHANGED later

NextXml == ApplyXml \/ LoadXml

SpecXml == InitXml /\ [][NextXml]_vars

----------------------------------------------------------------------------
(* The dialog: the clicks init_gui connects, and the edits of the spin boxes *)

Next ==
    \/ SetSelection \/ EditNumStack \/ EditMaxHeight \/ EditSepValue
    \/ MakeStacksBegin \/ BuildStack \/ OffsetStacks
    \/ LoadXml

Spec == Init /\ [][Next]_vars

----------------------------------------------------------------------------
(* Properties of a replay *)

\* the move apply_xml owes to the pair <<key, j>> of the mapping
MoveOwed(dict, pr) ==
    Entry("move", pr[2], "absolute",
          <<dict[pr[1]][pr[2]]["tx"], dict[pr[1]][pr[2]]["ty"],
            dict[pr[1]][pr[2]]["tz"]>>)

\* C10: replaying a file whose mapping is not empty, apply_xml issues exactly
\* one absolute move for every (stack group, object) entry of the mapping,
\* to the entry's own (tx, ty, tz) and addressed to the object's name; it
\* issues no relative move and no bounding-box query, and calls none of
\* get_center_point, create_stack, stack_objs and offset_objs_in_x.
C10_ReplayMovesOnly ==
    (last.op = "apply_xml" /\ result = PyTrue) =>
        LET dict == read_stack_xml([isfile |-> TRUE, doc |-> last.args]).contents
        IN  /\ Len(log) = Cardinality(Visited(dict))
            /\ \E f \in [1..Len(log) -> Visited(dict)] :
                  /\ \A a, b \in 1..Len(log) : a # b => f[a] # f[b]
                  /\ \A a \in 1..Len(log) : log[a] = MoveOwed(dict, f[a])
            /\ \A a \in 1..Len(log) :
                  log[a].op = "move" /\ log[a].mode = "absolute"

\* a replay of three object elements that hold the same object under two
\* stack groups: two moves, both addressed to that object
C10_Witness ==
    /\ last.op = "apply_xml" /\ result = PyTrue
    /\ Len(last.args) = 3 /\ Len(log) = 2
    /\ log[1].node = log[2].node /\ log[1].v # log[2].v
    /\ sc # before

----------------------------------------------------------------------------
(* Long runs of make_stacks, and the names they ask the host for *)

\* the dialog after the three groups were set with A selected, and the two
\* spin boxes set
InitNames ==
    /\ InitRun
    /\ top_text = amount(1) /\ mid_text = amount(1) /\ bottom_text = amount(1)
    /\ top_objects = {"A"} /\ mid_objects = {"A"} /\ bottom_objects = {"A"}
    /\ num_stack \in 0..MaxNamed
    /\ max_height \in NamedHeights
    /\ sep_value = 10
    /\ tree_view = <<>>
    /\ sc = [n \in Objs |-> Mesh(PlaceOf(n), ExtOf(n), "")]
    /\ before = sc

\* one click of Make Stack in that dialog, followed to its return
NextNames == MakeStacksBegin \/ BuildStack \/ OffsetStacks

SpecNames == InitNames /\ [][NextNames]_vars

\* the calls of a log that create a node, and the name each asks for
Creations(l) == {k \in 1..Len(l) : l[k].op \in {"duplicate", "group"}}
NameAsked(l, k) == IF l[k].op = "duplicate" THEN l[k].mode ELSE l[k].node

\* C13: within one run of make_stacks, for every stack count that passes
\* validation, the names asked for the created nodes (the group names, the
\* names of the top, bottom and middle duplicates) are pairwise distinct.
C13_NamesDistinct ==
    (Done /\ result = PyTrue)
        => \A a, b \in Creations(log) :
               a # b => NameAsked(log, a) # NameAsked(log, b)

====
